---- MODULE Spec2Model ----
(***************************************************************************)
(* Model of the text sanitization pipeline of resume-ai-pro.               *)
(*                                                                         *)
(* A JavaScript string is modelled as a sequence of UTF-16 code units      *)
(* (natural numbers); a regular expression without the u flag works on     *)
(* code units, so an emoji is two surrogate code units.  A JavaScript      *)
(* value is a record [type, val] where type is the result of typeof.       *)
(***************************************************************************)
EXTENDS Integers, Sequences, FiniteSets, TLC

VARIABLES input, sanitized, result, pc

(* A second call on the value the first call returned. *)
VARIABLES firstInput, pass

(* A call of the edge functions' sanitizeForJson on the same input. *)
VARIABLES sharedSanitized, sharedResult, sharedPc
(* One call of sanitizeObjectForJson(obj): the object heap, the heap as it  *)
(* was when the call started, the argument, the returned value.             *)
VARIABLES heap, heapBefore, obj, objResult, objPc
(* One run of a page handler and the edge functions it invokes: the values  *)
(* the user supplied, the request body in flight, the values embedded in    *)
(* the prompt, for each value the sanitizer calls it went through, and the  *)
(* row the page inserted.                                                   *)
VARIABLES flowPc, userText, body, prompt, passes, stored

scalarVars == <<input, sanitized, result, pc>>

passVars == <<firstInput, pass>>

sharedVars == <<sharedSanitized, sharedResult, sharedPc>>

objVars == <<heap, heapBefore, obj, objResult, objPc>>

flowVars == <<flowPc, userText, body, prompt, passes, stored>>

(* Runs of Upload.handleUpload: the selected file, the storage path built   *)
(* for it, the objects of the resumes bucket, the rows of the resumes table *)
(* the page inserted, the value of Date.now(), the number of selections.    *)
VARIABLES upPc, file, filePath, bucket, resumeRows, clock, uploads

(* One request to an edge function: the function, the request, whether      *)
(* LOVABLE_API_KEY is set, what the AI gateway does, the status answered.   *)
VARIABLES edgeFn, edgePc, request, apiKey, gateway, response

(* One run of Dashboard.fetchDashboardData: the two tables, the rows the    *)
(* two queries returned, the stats state, how the run ended.                *)
VARIABLES dashPc, resumesTable, analysesTable, resumesData, analysesData,
          stats, outcome

uploadVars == <<upPc, file, filePath, bucket, resumeRows, clock, uploads>>

edgeVars == <<edgeFn, edgePc, request, apiKey, gateway, response>>

dashVars == <<dashPc, resumesTable, analysesTable, resumesData, analysesData,
              stats, outcome>>

appVars == <<uploadVars, edgeVars, dashVars>>

vars == <<scalarVars, passVars, sharedVars, objVars, flowVars, appVars>>

(* useState<File | null>(null): no file is selected. *)
NoFile == "null"

(* No Response has been returned yet. *)
NoResponse == 0

(* useState({totalResumes: 0, totalAnalyses: 0, avgMatchScore: 0}). *)
InitialStats == [totalResumes |-> 0, totalAnalyses |-> 0, avgMatchScore |-> 0]

(* The Upload page is not mounted. *)
UploadIdle ==
  /\ upPc = "idle"
  /\ file = NoFile
  /\ filePath = <<>>
  /\ bucket = {}
  /\ resumeRows = {}
  /\ clock = 0
  /\ uploads = 0

(* No request is being served. *)
EdgeIdle ==
  /\ edgePc = "idle"
  /\ edgeFn = "none"
  /\ request = <<>>
  /\ apiKey = FALSE
  /\ gateway = <<>>
  /\ response = NoResponse

(* The Dashboard page is not mounted. *)
DashIdle ==
  /\ dashPc = "idle"
  /\ resumesTable = <<>>
  /\ analysesTable = <<>>
  /\ resumesData = <<>>
  /\ analysesData = <<>>
  /\ stats = InitialStats
  /\ outcome = "none"

(***************************************************************************)
(* Bounds of the model.                                                    *)
(***************************************************************************)
MaxLen == 5
MaxWideLen == 3
MaxHexTail == 5
MaxWidth == 2

(***************************************************************************)
(* Code units named by the source.                                         *)
(***************************************************************************)
Backslash == 92
LowerU == 117
Zero == 48
Nine == 57
LowerA == 97
LowerF == 102
UpperA == 65
UpperF == 70
C0First == 0
C0Last == 31
C1First == 127
C1Last == 159
HexRadix == 16
PadWidth == 4
HexDigits == 4

(***************************************************************************)
(* Code units used only to build inputs.                                   *)
(***************************************************************************)
UpperZ == 90
LowerN == 110
LowerT == 116
UpperG == 71
LineFeed == 10
Tab == 9
Space == 32
Tilde == C1First - 1
Nbsp == C1Last + 1
DoubleQuote == 34
EAcute == 233
Cjk == 20013
HighSurrogate == 55357
LowSurrogate == 56395
SumSign == 8721

CoreAlphabet == {Backslash, LowerU, UpperA, UpperZ, LineFeed}

WideAlphabet ==
  {C0First, Tab, C0Last, Space, DoubleQuote, Backslash, LowerU, Tilde,
   C1First, C1Last, Nbsp, EAcute, Cjk, HighSurrogate, LowSurrogate, SumSign}

HexAlphabet == {Nine, LowerA, UpperF, UpperG}

SeqsUpTo(S, n) == UNION {[1..k -> S] : k \in 0..n}

CoreTexts == SeqsUpTo(CoreAlphabet, MaxLen)

WideTexts == SeqsUpTo(WideAlphabet, MaxWideLen)

EscapePrefixes == {<<>>, <<UpperZ>>, <<Backslash>>}

EscapeTexts ==
  {p \o <<Backslash, LowerU>> \o t :
     p \in EscapePrefixes, t \in SeqsUpTo(HexAlphabet, MaxHexTail)}

(* A backslash followed by the letter n or t, as two characters of text. *)
LetterContexts == {<<>>, <<LineFeed>>, <<Tab>>, <<UpperZ>>, <<Backslash>>}

LetterEscapeTexts ==
  {p \o <<Backslash, c>> \o q :
     p \in LetterContexts, c \in {LowerN, LowerT}, q \in LetterContexts}

(* Texts that spell out the escape of a control character, as literal text. *)
SpelledEscapeTexts ==
  {p \o <<Backslash, LowerU, Zero, Zero, Zero, c>> :
     p \in {<<>>, <<Backslash>>}, c \in {Nine, LowerA}}

Texts ==
  CoreTexts \cup WideTexts \cup EscapeTexts \cup LetterEscapeTexts
    \cup SpelledEscapeTexts

Str(s) == [type |-> "string", val |-> s]

NonTextInputs ==
  {[type |-> "object", val |-> "null"],
   [type |-> "undefined", val |-> "undefined"],
   [type |-> "number", val |-> "123"],
   [type |-> "boolean", val |-> "true"],
   [type |-> "boolean", val |-> "false"]}

Pending == [type |-> "pending", val |-> "pending"]

(***************************************************************************)
(* Character classes of the regular expressions.                           *)
(***************************************************************************)
(* A faulty variant: the class [0-9a-f] without A-F. *)
IsHexDigitLowerOnly(c) ==
  \/ (c >= Zero /\ c <= Nine)
  \/ (c >= LowerA /\ c <= LowerF)

IsHexDigit(c) ==
  \/ (c >= Zero /\ c <= Nine)
  \/ (c >= LowerA /\ c <= LowerF)
  \/ (c >= UpperA /\ c <= UpperF)

(* A faulty variant: the first range ends one code unit late. *)
IsControlCharOneMore(c) ==
  \/ (c >= C0First /\ c <= C0Last + 1)
  \/ (c >= C1First /\ c <= C1Last)

IsControlChar(c) ==
  \/ (c >= C0First /\ c <= C0Last)
  \/ (c >= C1First /\ c <= C1Last)

(* (?![0-9a-fA-F]{4}) at index i: four hex digits do not follow. *)
FourHexFollow(s, i) ==
  /\ i + HexDigits - 1 <= Len(s)
  /\ \A k \in i..(i + HexDigits - 1) : IsHexDigit(s[k])

(* /\\u(?![0-9a-fA-F]{4})/ matches at index i. *)
MatchesMalformedU(s, i) ==
  /\ i + 1 <= Len(s)
  /\ s[i] = Backslash
  /\ s[i + 1] = LowerU
  /\ ~FourHexFollow(s, i + 2)

(* A faulty variant: [^\\] in place of the lookahead needs a next character. *)
MatchesBackslashBeforeOther(s, i) ==
  /\ s[i] = Backslash
  /\ i + 1 <= Len(s)
  /\ s[i + 1] # Backslash

(* A faulty variant: no lookahead, every backslash matches. *)
MatchesAnyBackslash(s, i) == s[i] = Backslash

(* A faulty variant: a lookbehind too, so a doubled backslash is left alone. *)
MatchesIsolatedBackslash(s, i) ==
  /\ s[i] = Backslash
  /\ ~(i + 1 <= Len(s) /\ s[i + 1] = Backslash)
  /\ ~(i > 1 /\ s[i - 1] = Backslash)

(* /\\(?!\\)/ matches at index i. *)
MatchesLoneBackslash(s, i) ==
  /\ s[i] = Backslash
  /\ ~(i + 1 <= Len(s) /\ s[i + 1] = Backslash)

(***************************************************************************)
(* Number.prototype.toString(16) and String.prototype.padStart(4, '0').    *)
(***************************************************************************)
(* A faulty variant: uppercase digits. *)
HexDigitCharUpper(d) == IF d < 10 THEN Zero + d ELSE UpperA + (d - 10)

HexDigitChar(d) == IF d < 10 THEN Zero + d ELSE LowerA + (d - 10)

RECURSIVE ToString16(_)
ToString16(n) ==
  IF n < HexRadix
    THEN <<HexDigitChar(n)>>
    ELSE ToString16(n \div HexRadix) \o <<HexDigitChar(n % HexRadix)>>

RECURSIVE PadStart(_, _, _)
PadStart(s, width, fill) ==
  IF Len(s) >= width THEN s ELSE PadStart(<<fill>> \o s, width, fill)

ControlEscape(ch) ==
  <<Backslash, LowerU>> \o PadStart(ToString16(ch), PadWidth, Zero)

(***************************************************************************)
(* The three global replaces of sanitizeForJson, scanning left to right.   *)
(***************************************************************************)
RECURSIVE ReplaceMalformedU(_, _)
ReplaceMalformedU(s, i) ==
  IF i > Len(s) THEN <<>>
  ELSE IF MatchesMalformedU(s, i)
    THEN <<Backslash, Backslash, LowerU>> \o ReplaceMalformedU(s, i + 2)
    ELSE <<s[i]>> \o ReplaceMalformedU(s, i + 1)

RECURSIVE ReplaceLoneBackslash(_, _)
ReplaceLoneBackslash(s, i) ==
  IF i > Len(s) THEN <<>>
  ELSE IF MatchesLoneBackslash(s, i)
    THEN <<Backslash, Backslash>> \o ReplaceLoneBackslash(s, i + 1)
    ELSE <<s[i]>> \o ReplaceLoneBackslash(s, i + 1)

RECURSIVE ReplaceControlChars(_, _)
ReplaceControlChars(s, i) ==
  IF i > Len(s) THEN <<>>
  ELSE IF IsControlChar(s[i])
    THEN ControlEscape(s[i]) \o ReplaceControlChars(s, i + 1)
    ELSE <<s[i]>> \o ReplaceControlChars(s, i + 1)

Step1(s) == ReplaceMalformedU(s, 1)

Step2(s) == ReplaceLoneBackslash(s, 1)

Step3(s) == ReplaceControlChars(s, 1)

(* The whole function on a text. *)
SanitizeText(s) == Step3(Step2(Step1(s)))

(***************************************************************************)
(* State machine: one call of sanitizeForJson(input).                      *)
(***************************************************************************)
Init ==
  /\ \/ input \in {Str(s) : s \in Texts}
     \/ input \in NonTextInputs
  /\ sanitized = <<>>
  /\ result = Pending
  /\ pc = "entry"
  /\ firstInput = input
  /\ pass = 1
  /\ sharedSanitized = <<>>
  /\ sharedResult = Pending
  /\ sharedPc = "idle"
  /\ heap = <<>>
  /\ heapBefore = <<>>
  /\ obj = Pending
  /\ objResult = Pending
  /\ objPc = "idle"
  /\ flowPc = "idle"
  /\ userText = <<>>
  /\ body = <<>>
  /\ prompt = <<>>
  /\ passes = <<>>
  /\ stored = <<>>
  /\ UploadIdle
  /\ EdgeIdle
  /\ DashIdle

(* A faulty variant: the value is coerced to text, as String(input) does. *)
ReturnNonStringCoerced ==
  /\ pc = "entry"
  /\ input.type # "string"
  /\ result' = [type |-> "string", val |-> input.val]
  /\ pc' = "returned"
  /\ UNCHANGED <<input, sanitized, passVars, sharedVars, objVars, flowVars, appVars>>

(* if (typeof input !== 'string') return input; *)
ReturnNonString ==
  /\ pc = "entry"
  /\ input.type # "string"
  /\ result' = input
  /\ pc' = "returned"
  /\ UNCHANGED <<input, sanitized, passVars, sharedVars, objVars, flowVars, appVars>>

(* let sanitized = input.replace(/\\u(?![0-9a-fA-F]{4})/g, '\\\\u'); *)
NormalizeMalformed ==
  /\ pc = "entry"
  /\ input.type = "string"
  /\ sanitized' = Step1(input.val)
  /\ pc' = "step2"
  /\ UNCHANGED <<input, result, passVars, sharedVars, objVars, flowVars, appVars>>

(* sanitized = sanitized.replace(/\\(?!\\)/g, '\\\\'); *)
EscapeBackslashes ==
  /\ pc = "step2"
  /\ sanitized' = Step2(sanitized)
  /\ pc' = "step3"
  /\ UNCHANGED <<input, result, passVars, sharedVars, objVars, flowVars, appVars>>

(* sanitized = sanitized.replace(/[\u0000-\u001F\u007F-\u009F]/g, ...); *)
EncodeControlChars ==
  /\ pc = "step3"
  /\ sanitized' = Step3(sanitized)
  /\ pc' = "return"
  /\ UNCHANGED <<input, result, passVars, sharedVars, objVars, flowVars, appVars>>

(* return sanitized; *)
ReturnSanitized ==
  /\ pc = "return"
  /\ result' = Str(sanitized)
  /\ pc' = "returned"
  /\ UNCHANGED <<input, sanitized, passVars, sharedVars, objVars, flowVars, appVars>>

Next ==
  \/ ReturnNonString
  \/ NormalizeMalformed
  \/ EscapeBackslashes
  \/ EncodeControlChars
  \/ ReturnSanitized

Spec == Init /\ [][Next]_vars

(***************************************************************************)
(* The sanitizer called again on the text it returned.                     *)
(***************************************************************************)
Reapply ==
  /\ pc = "returned"
  /\ pass = 1
  /\ result.type = "string"
  /\ input' = result
  /\ sanitized' = <<>>
  /\ result' = Pending
  /\ pc' = "entry"
  /\ pass' = pass + 1
  /\ UNCHANGED <<firstInput, sharedVars, objVars, flowVars, appVars>>

NextTwice ==
  \/ ReturnNonString
  \/ NormalizeMalformed
  \/ EscapeBackslashes
  \/ EncodeControlChars
  \/ ReturnSanitized
  \/ Reapply

SpecTwice == Init /\ [][NextTwice]_vars

(***************************************************************************)
(* sanitizeForJson of supabase/functions/_shared/sanitize.ts.              *)
(***************************************************************************)
(* A faulty variant: a well-formed \uXXXX is taken for an escape and skipped. *)
SharedMatchesBackslashNotEscape(s, i) ==
  /\ s[i] = Backslash
  /\ ~(i + 1 <= Len(s) /\ s[i + 1] = LowerU /\ FourHexFollow(s, i + 2))

(* /\\/ matches at index i. *)
SharedMatchesBackslash(s, i) == s[i] = Backslash

(* A faulty variant: only the C0 range is matched. *)
SharedIsControlCharC0Only(c) == c >= C0First /\ c <= C0Last

(* [\u0000-\u001F\u007F-\u009F] *)
SharedIsControlChar(c) ==
  \/ (c >= C0First /\ c <= C0Last)
  \/ (c >= C1First /\ c <= C1Last)

SharedControlEscape(ch) ==
  <<Backslash, LowerU>> \o PadStart(ToString16(ch), PadWidth, Zero)

RECURSIVE SharedReplaceBackslashes(_, _)
SharedReplaceBackslashes(s, i) ==
  IF i > Len(s) THEN <<>>
  ELSE IF SharedMatchesBackslash(s, i)
    THEN <<Backslash, Backslash>> \o SharedReplaceBackslashes(s, i + 1)
    ELSE <<s[i]>> \o SharedReplaceBackslashes(s, i + 1)

RECURSIVE SharedReplaceControlChars(_, _)
SharedReplaceControlChars(s, i) ==
  IF i > Len(s) THEN <<>>
  ELSE IF SharedIsControlChar(s[i])
    THEN SharedControlEscape(s[i]) \o SharedReplaceControlChars(s, i + 1)
    ELSE <<s[i]>> \o SharedReplaceControlChars(s, i + 1)

SharedSanitizeText(s) ==
  SharedReplaceControlChars(SharedReplaceBackslashes(s, 1), 1)

(* if (typeof input !== 'string') return input; *)
SharedReturnNonString ==
  /\ pc = "returned"
  /\ sharedPc = "idle"
  /\ input.type # "string"
  /\ sharedResult' = input
  /\ sharedPc' = "returned"
  /\ UNCHANGED <<scalarVars, passVars, sharedSanitized, objVars, flowVars, appVars>>

(* let sanitized = input.replace(/\\/g, '\\\\'); *)
SharedEscapeBackslashes ==
  /\ pc = "returned"
  /\ sharedPc = "idle"
  /\ input.type = "string"
  /\ sharedSanitized' = SharedReplaceBackslashes(input.val, 1)
  /\ sharedPc' = "step2"
  /\ UNCHANGED <<scalarVars, passVars, sharedResult, objVars, flowVars, appVars>>

(* sanitized = sanitized.replace(/[\u0000-\u001F\u007F-\u009F]/g, ...); *)
SharedEncodeControlChars ==
  /\ sharedPc = "step2"
  /\ sharedSanitized' = SharedReplaceControlChars(sharedSanitized, 1)
  /\ sharedPc' = "return"
  /\ UNCHANGED <<scalarVars, passVars, sharedResult, objVars, flowVars, appVars>>

(* return sanitized; *)
SharedReturnSanitized ==
  /\ sharedPc = "return"
  /\ sharedResult' = Str(sharedSanitized)
  /\ sharedPc' = "returned"
  /\ UNCHANGED <<scalarVars, passVars, sharedSanitized, objVars, flowVars, appVars>>

(* Both implementations called on the same input, one after the other. *)
NextBoth ==
  \/ ReturnNonString
  \/ NormalizeMalformed
  \/ EscapeBackslashes
  \/ EncodeControlChars
  \/ ReturnSanitized
  \/ SharedReturnNonString
  \/ SharedEscapeBackslashes
  \/ SharedEncodeControlChars
  \/ SharedReturnSanitized

SpecBoth == Init /\ [][NextBoth]_vars

(***************************************************************************)
(* sanitizeObjectForJson.  Arrays and plain objects live in a heap, keyed   *)
(* by address; a value of type "object" other than null holds the address   *)
(* of its container.  A container lists its own enumerable properties in    *)
(* order; the entries of an array carry the empty key.                      *)
(***************************************************************************)
Null == [type |-> "object", val |-> "null"]

Ref(a) == [type |-> "object", val |-> a]

EmptyArray == [isArray |-> TRUE, entries |-> <<>>]

EmptyObject == [isArray |-> FALSE, entries |-> <<>>]

(* The property name "__proto__". *)
ProtoKey == <<95, 95, 112, 114, 111, 116, 111, 95, 95>>

Fresh(h) == "obj" \o ToString(Cardinality(DOMAIN h) + 1)

Allocate(h, a, c) ==
  IF a \in DOMAIN h THEN h
  ELSE [x \in DOMAIN h \cup {a} |-> IF x = a THEN c ELSE h[x]]

WithEntries(h, a, es) ==
  [x \in DOMAIN h |-> IF x = a THEN [h[x] EXCEPT !.entries = es] ELSE h[x]]

(* !obj *)
Falsy(v) ==
  \/ v.type = "undefined"
  \/ v.type = "object" /\ v.val = "null"
  \/ v.type = "boolean" /\ v.val = "false"
  \/ v.type = "number" /\ v.val = "0"
  \/ v.type = "string" /\ v.val = <<>>

(* typeof v === 'object' && v !== null *)
IsContainer(v) == v.type = "object" /\ v.val # "null"

(* A[i] = value, as Array.prototype.map stores the callback's result. *)
SetIndex(h, a, i, value) ==
  LET es == h[a].entries
      e == [key |-> <<>>, value |-> value]
  IN WithEntries(h, a, IF i <= Len(es) THEN [es EXCEPT ![i] = e]
                       ELSE Append(es, e))

(* sanitized[key] = value on an object created by {}: the name "__proto__" *)
(* reaches the accessor of Object.prototype and makes no own property.      *)
SetProperty(h, a, key, value) ==
  LET es == h[a].entries
      e == [key |-> key, value |-> value]
      at == {j \in 1..Len(es) : es[j].key = key}
  IN IF key = ProtoKey THEN h
     ELSE IF at = {} THEN WithEntries(h, a, Append(es, e))
     ELSE WithEntries(h, a, [j \in 1..Len(es) |-> IF j \in at THEN e ELSE es[j]])

(* A faulty variant: the array is rewritten in place. *)
ArraySpeciesCreateInPlace(h, src) == src

(* obj.map builds its result in a new array. *)
ArraySpeciesCreate(h, src) == Fresh(h)

(* A faulty variant: the key is sanitized like a value. *)
EntryKeySanitized(e) == SanitizeText(e.key)

(* const [key, value] of Object.entries(obj) *)
EntryKey(e) == e.key

RECURSIVE SanitizeObjectForJson(_, _)
RECURSIVE MapItems(_, _, _, _)
RECURSIVE AssignEntries(_, _, _, _)

(* The call on value v in heap h: the heap afterwards and the value returned. *)
SanitizeObjectForJson(h, v) ==
  IF Falsy(v) \/ v.type # "object"
  THEN [heap |-> h,
        value |-> IF v.type = "string" THEN Str(SanitizeText(v.val)) ELSE v]
  ELSE IF h[v.val].isArray
  THEN LET t == ArraySpeciesCreate(h, v.val)
       IN [heap |-> MapItems(Allocate(h, t, EmptyArray), v.val, 1, t),
           value |-> Ref(t)]
  ELSE LET t == Fresh(h)
       IN [heap |-> AssignEntries(Allocate(h, t, EmptyObject),
                                  h[v.val].entries, 1, t),
           value |-> Ref(t)]

(* obj.map(item => sanitizeObjectForJson(item)), from index i on. *)
MapItems(h, src, i, t) ==
  IF i > Len(h[src].entries) THEN h
  ELSE LET r == SanitizeObjectForJson(h, h[src].entries[i].value)
       IN MapItems(SetIndex(r.heap, t, i, r.value), src, i + 1, t)

(* for (const [key, value] of Object.entries(obj)) { ... }, from entry i on. *)
AssignEntries(h, es, i, t) ==
  IF i > Len(es) THEN h
  ELSE LET key == EntryKey(es[i])
           value == es[i].value
           r == IF value.type = "string"
                  THEN [heap |-> h, value |-> Str(SanitizeText(value.val))]
                ELSE IF IsContainer(value)
                  THEN SanitizeObjectForJson(h, value)
                ELSE [heap |-> h, value |-> value]
       IN AssignEntries(SetProperty(r.heap, t, key, r.value), es, i + 1, t)

(***************************************************************************)
(* Arguments of the call: scalars, and arrays and objects nested two deep,  *)
(* written as trees and then built in the heap.                             *)
(***************************************************************************)
LeafTexts ==
  {<<>>, <<Backslash, LowerN>>, <<Backslash, LowerU, UpperZ>>, <<LineFeed>>}

Leaves == {Str(s) : s \in LeafTexts} \cup NonTextInputs

NestedLeaves == {Str(<<Backslash, LowerU, UpperZ>>), Null}

Keys == {<<UpperZ>>, <<Backslash, LowerU>>, <<LineFeed>>, ProtoKey}

NestedKeys == {<<UpperZ>>, <<Backslash, LowerU>>}

LeafTree(v) == [kind |-> "leaf", leaf |-> v, keys |-> <<>>, items |-> <<>>]

ArrayTrees(C, w) ==
  {[kind |-> "array", leaf |-> Null, keys |-> <<>>, items |-> it] :
     it \in SeqsUpTo(C, w)}

DistinctKeys(K, n) ==
  {ks \in [1..n -> K] : \A i, j \in 1..n : i # j => ks[i] # ks[j]}

MappingTrees(C, K, w) ==
  UNION {{[kind |-> "mapping", leaf |-> Null, keys |-> ks, items |-> it] :
            ks \in DistinctKeys(K, n), it \in [1..n -> C]} : n \in 0..w}

LeafTrees == {LeafTree(v) : v \in Leaves}

NestedTrees ==
  LET C == {LeafTree(v) : v \in NestedLeaves}
  IN C \cup ArrayTrees(C, 1) \cup MappingTrees(C, NestedKeys, 1)

(* The arrays and objects with the items it: the array, and an object for *)
(* every choice of distinct keys.                                          *)
ObjInputsWith(it) ==
  {[kind |-> "array", leaf |-> Null, keys |-> <<>>, items |-> it]}
    \cup {[kind |-> "mapping", leaf |-> Null, keys |-> ks, items |-> it] :
            ks \in DistinctKeys(Keys, Len(it))}

RECURSIVE Load(_, _)
RECURSIVE LoadItems(_, _, _, _)

(* The value of tree t built in heap h, as a literal or JSON.parse builds it. *)
Load(h, t) ==
  IF t.kind = "leaf" THEN [heap |-> h, value |-> t.leaf]
  ELSE LET a == Fresh(h)
           c == IF t.kind = "array" THEN EmptyArray ELSE EmptyObject
       IN [heap |-> LoadItems(Allocate(h, a, c), t, 1, a), value |-> Ref(a)]

LoadItems(h, t, i, a) ==
  IF i > Len(t.items) THEN h
  ELSE LET r == Load(h, t.items[i])
           k == IF t.kind = "array" THEN <<>> ELSE t.keys[i]
           e == [key |-> k, value |-> r.value]
       IN LoadItems(WithEntries(r.heap, a, Append(r.heap[a].entries, e)),
                    t, i + 1, a)

LoadedAs(t) ==
  LET r == Load(<<>>, t)
  IN /\ heap = r.heap
     /\ obj = r.value

InitObj ==
  /\ \/ \E t \in LeafTrees : LoadedAs(t)
     \/ \E C \in {LeafTrees, NestedTrees}, n \in 0..MaxWidth :
          \E it \in [1..n -> C] :
            \E t \in ObjInputsWith(it) : LoadedAs(t)
  /\ heapBefore = heap
  /\ objResult = Pending
  /\ objPc = "entry"
  /\ input = Str(<<>>)
  /\ sanitized = <<>>
  /\ result = Pending
  /\ pc = "idle"
  /\ firstInput = input
  /\ pass = 1
  /\ sharedSanitized = <<>>
  /\ sharedResult = Pending
  /\ sharedPc = "idle"
  /\ flowPc = "idle"
  /\ userText = <<>>
  /\ body = <<>>
  /\ prompt = <<>>
  /\ passes = <<>>
  /\ stored = <<>>
  /\ UploadIdle
  /\ EdgeIdle
  /\ DashIdle

(* if (!obj || typeof obj !== 'object') return ...; *)
ReturnLeaf ==
  /\ objPc = "entry"
  /\ Falsy(obj) \/ obj.type # "object"
  /\ objResult' = SanitizeObjectForJson(heap, obj).value
  /\ heap' = SanitizeObjectForJson(heap, obj).heap
  /\ objPc' = "returned"
  /\ UNCHANGED <<scalarVars, passVars, sharedVars, heapBefore, obj, flowVars, appVars>>

(* if (Array.isArray(obj)) return obj.map(...); *)
MapArray ==
  /\ objPc = "entry"
  /\ IsContainer(obj)
  /\ heap[obj.val].isArray
  /\ objResult' = SanitizeObjectForJson(heap, obj).value
  /\ heap' = SanitizeObjectForJson(heap, obj).heap
  /\ objPc' = "returned"
  /\ UNCHANGED <<scalarVars, passVars, sharedVars, heapBefore, obj, flowVars, appVars>>

(* const sanitized = {}; for (...) { ... } return sanitized; *)
BuildMapping ==
  /\ objPc = "entry"
  /\ IsContainer(obj)
  /\ ~heap[obj.val].isArray
  /\ objResult' = SanitizeObjectForJson(heap, obj).value
  /\ heap' = SanitizeObjectForJson(heap, obj).heap
  /\ objPc' = "returned"
  /\ UNCHANGED <<scalarVars, passVars, sharedVars, heapBefore, obj, flowVars, appVars>>

NextObj ==
  \/ ReturnLeaf
  \/ MapArray
  \/ BuildMapping

SpecObj == InitObj /\ [][NextObj]_vars

(***************************************************************************)
(* sanitizeObjectForJson of supabase/functions/_shared/sanitize.ts: the    *)
(* same walk, with the shared sanitizeForJson at the string leaves.        *)
(***************************************************************************)
RECURSIVE SharedSanitizeObjectForJson(_, _)
RECURSIVE SharedMapItems(_, _, _, _)
RECURSIVE SharedAssignEntries(_, _, _, _)

SharedSanitizeObjectForJson(h, v) ==
  IF Falsy(v) \/ v.type # "object"
  THEN [heap |-> h,
        value |-> IF v.type = "string" THEN Str(SharedSanitizeText(v.val))
                  ELSE v]
  ELSE IF h[v.val].isArray
  THEN LET t == Fresh(h)
       IN [heap |-> SharedMapItems(Allocate(h, t, EmptyArray), v.val, 1, t),
           value |-> Ref(t)]
  ELSE LET t == Fresh(h)
       IN [heap |-> SharedAssignEntries(Allocate(h, t, EmptyObject),
                                        h[v.val].entries, 1, t),
           value |-> Ref(t)]

SharedMapItems(h, src, i, t) ==
  IF i > Len(h[src].entries) THEN h
  ELSE LET r == SharedSanitizeObjectForJson(h, h[src].entries[i].value)
       IN SharedMapItems(SetIndex(r.heap, t, i, r.value), src, i + 1, t)

SharedAssignEntries(h, es, i, t) ==
  IF i > Len(es) THEN h
  ELSE LET key == es[i].key
           value == es[i].value
           r == IF value.type = "string"
                  THEN [heap |-> h,
                        value |-> Str(SharedSanitizeText(value.val))]
                ELSE IF IsContainer(value)
                  THEN SharedSanitizeObjectForJson(h, value)
                ELSE [heap |-> h, value |-> value]
       IN SharedAssignEntries(SetProperty(r.heap, t, key, r.value),
                              es, i + 1, t)

(***************************************************************************)
(* From the pages to the prompts.  A structured value travels and is       *)
(* stored as JSON, written here as a tree: Load is JSON.parse of it, Dump  *)
(* is JSON.stringify.  A prompt is written as the values interpolated into *)
(* it.                                                                      *)
(***************************************************************************)
Fields == {"resumeText", "jobTitle", "jobDescription", "parsedResume"}

(* The code units String.prototype.trim removes. *)
WhiteSpace ==
  {9, 10, 11, 12, 13, 32, 160, 5760, 8232, 8233, 8239, 8287, 12288, 65279}
    \cup (8192..8202)

RECURSIVE TrimStart(_)
TrimStart(s) ==
  IF s # <<>> /\ Head(s) \in WhiteSpace THEN TrimStart(Tail(s)) ELSE s

RECURSIVE TrimEnd(_)
TrimEnd(s) ==
  IF s # <<>> /\ s[Len(s)] \in WhiteSpace
  THEN TrimEnd(SubSeq(s, 1, Len(s) - 1))
  ELSE s

Trim(s) == TrimEnd(TrimStart(s))

Defined(e) == e.value.type # "undefined"

RECURSIVE Dump(_, _)
Dump(h, v) ==
  IF ~IsContainer(v)
  THEN LeafTree(IF v.type = "undefined" THEN Null ELSE v)
  ELSE IF h[v.val].isArray
  THEN LET es == h[v.val].entries
       IN [kind |-> "array", leaf |-> Null, keys |-> <<>>,
           items |-> [j \in 1..Len(es) |-> Dump(h, es[j].value)]]
  ELSE LET es == SelectSeq(h[v.val].entries, Defined)
       IN [kind |-> "mapping", leaf |-> Null,
           keys |-> [j \in 1..Len(es) |-> es[j].key],
           items |-> [j \in 1..Len(es) |-> Dump(h, es[j].value)]]

FlowTexts ==
  LeafTexts \cup {<<UpperZ>>, <<Backslash>>, <<Tab, Backslash, Space>>}

FlowResumes ==
  LET C == {LeafTree(v) : v \in NestedLeaves}
  IN ArrayTrees(C, 1) \cup MappingTrees(C, NestedKeys, 1)

InitFlow ==
  /\ \/ /\ flowPc = "upload"
        /\ \E t \in FlowTexts : userText = [resumeText |-> t]
     \/ /\ flowPc = "analyze"
        /\ \E t \in FlowTexts, d \in FlowTexts, r \in FlowResumes :
             userText = [jobTitle |-> t, jobDescription |-> d,
                         parsedResume |-> r]
  /\ body = <<>>
  /\ prompt = <<>>
  /\ passes = [f \in Fields |-> 0]
  /\ stored = <<>>
  /\ input = Str(<<>>)
  /\ sanitized = <<>>
  /\ result = Pending
  /\ pc = "idle"
  /\ firstInput = input
  /\ pass = 1
  /\ sharedSanitized = <<>>
  /\ sharedResult = Pending
  /\ sharedPc = "idle"
  /\ heap = <<>>
  /\ heapBefore = <<>>
  /\ obj = Pending
  /\ objResult = Pending
  /\ objPc = "idle"
  /\ UploadIdle
  /\ EdgeIdle
  /\ DashIdle

(* Upload.handleUpload: sanitizedText = sanitizeForJson(extractedText);    *)
(* supabase.functions.invoke("parse-resume", {body: {resumeText}}).        *)
HandleUpload ==
  /\ flowPc = "upload"
  /\ body' = [resumeText |-> SanitizeText(userText.resumeText)]
  /\ passes' = [passes EXCEPT !["resumeText"] = @ + 1]
  /\ flowPc' = "parseRequested"
  /\ UNCHANGED <<userText, stored, prompt, scalarVars, passVars, sharedVars, objVars, appVars>>

(* The parse-resume handler that sanitizes: sanitizeForJson(resumeText),   *)
(* `Parse this resume:\n\n${sanitizedResumeText}`.                         *)
ParseResume ==
  /\ flowPc = "parseRequested"
  /\ prompt' = [resumeText |-> SharedSanitizeText(body.resumeText)]
  /\ passes' = [passes EXCEPT !["resumeText"] = @ + 1]
  /\ flowPc' = "parsePrompt"
  /\ UNCHANGED <<userText, stored, body, scalarVars, passVars, sharedVars, objVars, appVars>>

(* parse-resume/index.ts: `Parse this resume:\n\n${resumeText}`. *)
ParseResumeIndex ==
  /\ flowPc = "parseRequested"
  /\ prompt' = [resumeText |-> body.resumeText]
  /\ flowPc' = "parsePrompt"
  /\ UNCHANGED <<userText, stored, body, passes, scalarVars, passVars, sharedVars,
                 objVars, appVars>>

(* Analyze.handleAnalyze: toast.error(...); return; *)
RejectAnalyze ==
  /\ flowPc = "analyze"
  /\ Trim(userText.jobTitle) = <<>> \/ Trim(userText.jobDescription) = <<>>
  /\ flowPc' = "rejected"
  /\ UNCHANGED <<userText, stored, body, prompt, passes, scalarVars, passVars,
                 sharedVars, objVars, appVars>>

(* Analyze.handleAnalyze up to supabase.functions.invoke("analyze-job-fit"). *)
HandleAnalyze ==
  /\ flowPc = "analyze"
  /\ Trim(userText.jobTitle) # <<>>
  /\ Trim(userText.jobDescription) # <<>>
  /\ body' = [parsedResume |-> userText.parsedResume,
              jobTitle |-> SanitizeText(Trim(userText.jobTitle)),
              jobDescription |-> SanitizeText(Trim(userText.jobDescription))]
  /\ passes' = [passes EXCEPT !["jobTitle"] = @ + 1,
                              !["jobDescription"] = @ + 1]
  /\ flowPc' = "fitRequested"
  /\ UNCHANGED <<userText, stored, prompt, scalarVars, passVars, sharedVars, objVars, appVars>>

(* analyze-job-fit: the request's values go into the prompt as received. *)
AnalyzeJobFit ==
  /\ flowPc = "fitRequested"
  /\ LET r == Load(<<>>, body.parsedResume)
     IN prompt' = [jobTitle |-> body.jobTitle,
                   jobDescription |-> body.jobDescription,
                   parsedResume |-> Dump(r.heap, r.value)]
  /\ flowPc' = "fitPrompt"
  /\ UNCHANGED <<userText, stored, body, passes, scalarVars, passVars, sharedVars,
                 objVars, appVars>>

(* Analyze.handleAnalyze: supabase.functions.invoke("improve-resume") with *)
(* the same body.                                                           *)
InvokeImproveResume ==
  /\ flowPc = "fitPrompt"
  /\ body' = [parsedResume |-> userText.parsedResume,
              jobTitle |-> body.jobTitle,
              jobDescription |-> body.jobDescription]
  /\ prompt' = <<>>
  /\ flowPc' = "improveRequested"
  /\ UNCHANGED <<userText, stored, passes, scalarVars, passVars, sharedVars, objVars, appVars>>

(* improve-resume: sanitizeForJson(jobTitle), sanitizeForJson(jobDescription), *)
(* sanitizeObjectForJson(parsedResume), then the prompt.                    *)
ImproveResume ==
  /\ flowPc = "improveRequested"
  /\ LET r == Load(<<>>, body.parsedResume)
         s == SharedSanitizeObjectForJson(r.heap, r.value)
     IN prompt' = [jobTitle |-> SharedSanitizeText(body.jobTitle),
                   jobDescription |-> SharedSanitizeText(body.jobDescription),
                   parsedResume |-> Dump(s.heap, s.value)]
  /\ passes' = [f \in Fields |->
                  IF f = "resumeText" THEN passes[f] ELSE passes[f] + 1]
  /\ flowPc' = "improvePrompt"
  /\ UNCHANGED <<userText, stored, body, scalarVars, passVars, sharedVars, objVars, appVars>>

(* Upload.handleUpload after parse-resume answered: insert into resumes. *)
InsertResume ==
  /\ flowPc = "parsePrompt"
  /\ stored' = [extracted_text |-> userText.resumeText]
  /\ flowPc' = "resumeStored"
  /\ UNCHANGED <<userText, body, prompt, passes, scalarVars, passVars,
                 sharedVars, objVars, appVars>>

(* Analyze.handleAnalyze after improve-resume answered: insert into analyses. *)
InsertAnalysis ==
  /\ flowPc = "improvePrompt"
  /\ stored' = [job_title |-> body.jobTitle,
                job_description |-> body.jobDescription]
  /\ flowPc' = "analysisStored"
  /\ UNCHANGED <<userText, body, prompt, passes, scalarVars, passVars,
                 sharedVars, objVars, appVars>>

NextFlow ==
  \/ HandleUpload
  \/ ParseResume
  \/ ParseResumeIndex
  \/ RejectAnalyze
  \/ HandleAnalyze
  \/ AnalyzeJobFit
  \/ InvokeImproveResume
  \/ ImproveResume
  \/ InsertResume
  \/ InsertAnalysis

SpecFlow == InitFlow /\ [][NextFlow]_vars

TypeOK ==
  /\ pc \in {"idle", "entry", "step2", "step3", "return", "returned"}
  /\ sanitized \in Seq(Nat)

Returned == pc = "returned"

TextCall == input.type = "string"

(***************************************************************************)
(* Vocabulary of the properties, stated without the operators above.       *)
(***************************************************************************)
InText == input.val

OutText == result.val

Chars(s) == {s[i] : i \in 1..Len(s)}

HexCodeUnits == (48..57) \cup (65..70) \cup (97..102)

ControlCodeUnits == (0..31) \cup (127..159)

(* Four hexadecimal digits follow from index i of s. *)
FourHexAt(s, i) ==
  /\ i + 3 <= Len(s)
  /\ \A k \in i..(i + 3) : s[k] \in HexCodeUnits

(* Length of the maximal run of backslashes of s that starts at index i. *)
RECURSIVE RunFrom(_, _)
RunFrom(s, i) ==
  IF i > Len(s) \/ s[i] # 92 THEN 0 ELSE 1 + RunFrom(s, i + 1)

(* The lengths of the maximal backslash runs of s, left to right. *)
RECURSIVE BackslashRuns(_, _)
BackslashRuns(s, i) ==
  IF i > Len(s) THEN <<>>
  ELSE IF s[i] = 92
    THEN <<RunFrom(s, i)>> \o BackslashRuns(s, i + RunFrom(s, i))
    ELSE BackslashRuns(s, i + 1)

(* Lowercase hexadecimal digit of d in 0..15, and the escape of c < 256. *)
LowerHex(d) == IF d < 10 THEN 48 + d ELSE 87 + d

EscapeOf(c) == <<92, 117, 48, 48, LowerHex(c \div 16), LowerHex(c % 16)>>

(* Every backslash doubled, every control character escaped, the rest kept. *)
RECURSIVE UniformlyEscaped(_)
UniformlyEscaped(s) ==
  IF s = <<>> THEN <<>>
  ELSE (IF Head(s) = 92 THEN <<92, 92>>
        ELSE IF Head(s) \in ControlCodeUnits THEN EscapeOf(Head(s))
        ELSE <<Head(s)>>) \o UniformlyEscaped(Tail(s))

(* s tokenized from index i as the body of a JSON string literal: every   *)
(* backslash reached starts \\ or \u followed by four hex digits.         *)
RECURSIVE JsonEscapesOk(_, _)
JsonEscapesOk(s, i) ==
  IF i > Len(s) THEN TRUE
  ELSE IF s[i] # 92 THEN JsonEscapesOk(s, i + 1)
  ELSE IF i + 1 <= Len(s) /\ s[i + 1] = 92 THEN JsonEscapesOk(s, i + 2)
  ELSE IF i + 1 <= Len(s) /\ s[i + 1] = 117 /\ FourHexAt(s, i + 2)
    THEN JsonEscapesOk(s, i + 6)
  ELSE FALSE

Prefix(s, i) == SubSeq(s, 1, i - 1)

Suffix(s, i) == SubSeq(s, i, Len(s))

StartsWith(s, p) == Len(p) <= Len(s) /\ SubSeq(s, 1, Len(p)) = p

(* A backslash at index i of s that no backslash precedes, followed by u. *)
SingleBackslashU(s, i) ==
  /\ i + 1 <= Len(s)
  /\ s[i] = 92
  /\ s[i + 1] = 117
  /\ (i = 1 \/ s[i - 1] # 92)

MalformedAt(s, i) == SingleBackslashU(s, i) /\ ~FourHexAt(s, i + 2)

WellFormedAt(s, i) == SingleBackslashU(s, i) /\ FourHexAt(s, i + 2)

(* Every backslash of s has no backslash neighbour and no u after it. *)
BackslashesIsolated(s) ==
  \A i \in 1..Len(s) :
    s[i] = 92 =>
      /\ (i = 1 \/ s[i - 1] # 92)
      /\ (i = Len(s) \/ s[i + 1] \notin {92, 117})

Ordinary(s) == \A i \in 1..Len(s) : s[i] # 92 /\ s[i] \notin ControlCodeUnits

(***************************************************************************)
(* C1: for every text input without a double-quote, the returned text,     *)
(* tokenized left to right as the body of a JSON string literal, has no    *)
(* malformed escape.                                                       *)
(***************************************************************************)
C1_NoMalformedEscape ==
  (Returned /\ TextCall /\ 34 \notin Chars(InText)) => JsonEscapesOk(OutText, 1)

(***************************************************************************)
(* C2: a text input with no backslash and no code unit in 0x00-0x1F or     *)
(* 0x7F-0x9F is returned unchanged.                                        *)
(***************************************************************************)
C2_SafeTextUnchanged ==
  (Returned /\ TextCall /\ Ordinary(InText)) => result = input

C2_Witness ==
  /\ Returned
  /\ TextCall
  /\ InText = <<55357, 56395, 32>>
  /\ result = input

(***************************************************************************)
(* C3: every run of k consecutive backslashes of the input is a run of     *)
(* exactly 2k backslashes of the output, in the same order (stated for     *)
(* inputs without control characters, whose escapes add backslashes).      *)
(***************************************************************************)
C3_RunsDoubled ==
  (Returned /\ TextCall /\ Chars(InText) \cap ControlCodeUnits = {}) =>
    /\ Len(BackslashRuns(OutText, 1)) = Len(BackslashRuns(InText, 1))
    /\ \A j \in 1..Len(BackslashRuns(InText, 1)) :
         BackslashRuns(OutText, 1)[j] = 2 * BackslashRuns(InText, 1)[j]

C5_MalformedGetsTwo ==
  (Returned /\ TextCall) =>
    \A i \in 1..Len(InText) :
      ( /\ MalformedAt(InText, i)
        /\ Ordinary(Prefix(InText, i))
        /\ Ordinary(Suffix(InText, i + 2)) ) =>
      OutText = Prefix(InText, i) \o <<92, 92, 117>> \o Suffix(InText, i + 2)

(* After steps 1 and 2, the malformed backslash+u at index i of the input  *)
(* is a run of exactly n backslashes followed by u, right after the image  *)
(* of the text before it.                                                  *)
BecameRun(i, n) ==
  LET before == Step2(Step1(Prefix(InText, i)))
      at == Len(before) + 1
  IN /\ StartsWith(sanitized, before)
     /\ (before = <<>> \/ before[Len(before)] # 92)
     /\ RunFrom(sanitized, at) = n
     /\ at + n <= Len(sanitized)
     /\ sanitized[at + n] = 117

C7_WellFormedDoubled ==
  TextCall =>
    \A i \in 1..Len(InText) :
      WellFormedAt(InText, i) =>
        /\ (pc = "step2") =>
             LET before == Step1(Prefix(InText, i))
             IN /\ StartsWith(sanitized, before)
                /\ StartsWith(Suffix(sanitized, Len(before) + 1),
                              SubSeq(InText, i, i + 5))
        /\ Returned =>
             LET before == SanitizeText(Prefix(InText, i))
             IN /\ StartsWith(OutText, before)
                /\ (before = <<>> \/ before[Len(before)] # 92)
                /\ StartsWith(Suffix(OutText, Len(before) + 1),
                              <<92, 92, 117>> \o SubSeq(InText, i + 2, i + 5))

C7_Witness ==
  /\ Returned
  /\ TextCall
  /\ InText = <<90, 92, 117, 57, 97, 70, 57, 71>>
  /\ OutText = <<90, 92, 92, 117, 57, 97, 70, 57, 71>>

(* Backslash, u and a tail that is not exactly four hex digits: fewer than *)
(* four, a non-hex character among the first four, or five or more.        *)
NotExactlyFourHex(t) ==
  /\ \A k \in 1..Len(t) : t[k] # 92 /\ t[k] \notin ControlCodeUnits
  /\ ~(FourHexAt(t, 1) /\ (Len(t) = 4 \/ t[5] \notin HexCodeUnits))

(***************************************************************************)
(* C8: backslash+u followed by five or more hex digits, by fewer than      *)
(* four, or by non-hex characters all come out with the same number of     *)
(* backslashes before the u (the number backslash+u+Z comes out with).     *)
(***************************************************************************)
C8_SameBackslashCount ==
  (Returned /\ TextCall /\ StartsWith(InText, <<92, 117>>)
     /\ NotExactlyFourHex(Suffix(InText, 3))) =>
    /\ RunFrom(OutText, 1) = RunFrom(SanitizeText(<<92, 117, 90>>), 1)
    /\ OutText[RunFrom(OutText, 1) + 1] = 117

(* out is inp with each control character replaced by its escape, each     *)
(* backslash by one or more backslashes, and the rest unchanged.           *)
RECURSIVE ControlsEscaped(_, _)
ControlsEscaped(inp, out) ==
  IF inp = <<>> THEN out = <<>>
  ELSE IF Head(inp) \in ControlCodeUnits
    THEN /\ StartsWith(out, EscapeOf(Head(inp)))
         /\ ControlsEscaped(Tail(inp), Suffix(out, 7))
  ELSE IF Head(inp) = 92
    THEN \E n \in 1..Len(out) :
           /\ \A k \in 1..n : out[k] = 92
           /\ ControlsEscaped(Tail(inp), Suffix(out, n + 1))
  ELSE /\ out # <<>>
       /\ Head(out) = Head(inp)
       /\ ControlsEscaped(Tail(inp), Tail(out))

(***************************************************************************)
(* C9: every code unit c in 0x00-0x1F or 0x7F-0x9F comes out as backslash, *)
(* u and c in four zero-padded lowercase hex digits, and every other       *)
(* non-backslash code unit comes out unchanged, in order.                  *)
(***************************************************************************)
C9_ControlCharsEscaped ==
  (Returned /\ TextCall) => ControlsEscaped(InText, OutText)

C9_Witness ==
  /\ Returned
  /\ TextCall
  /\ InText = <<126, 159, 160>>
  /\ OutText = <<126, 92, 117, 48, 48, 57, 102, 160>>

(***************************************************************************)
(* C10: a non-text input (null, undefined, a number, a boolean) is         *)
(* returned as the identical value.                                        *)
(***************************************************************************)
C10_NonTextReturned ==
  (Returned /\ ~TextCall) => (result = input /\ sanitized = <<>>)

C10_Witness ==
  /\ Returned
  /\ input = [type |-> "number", val |-> "123"]
  /\ result = [type |-> "number", val |-> "123"]

Contains(s, p) ==
  \E i \in 1..(Len(s) - Len(p) + 1) : SubSeq(s, i, i + Len(p) - 1) = p

CountBackslashes(s) == Cardinality({i \in 1..Len(s) : s[i] = 92})

HasBackslashOrControl(s) ==
  \E i \in 1..Len(s) : s[i] = 92 \/ s[i] \in ControlCodeUnits

(* The two characters backslash and c at index i of s, no backslash before. *)
LetterEscapeAt(s, i, c) ==
  /\ i + 1 <= Len(s)
  /\ s[i] = 92
  /\ s[i + 1] = c
  /\ (i = 1 \/ s[i - 1] # 92)

C15_NotIdempotent ==
  (Returned /\ pass = 2 /\ HasBackslashOrControl(firstInput.val)) =>
    result # input

C15_Witness ==
  /\ Returned
  /\ pass = 2
  /\ firstInput.val = <<90, 10>>
  /\ InText = <<90, 92, 117, 48, 48, 48, 97>>
  /\ OutText = <<90, 92, 92, 117, 48, 48, 48, 97>>

(***************************************************************************)
(* C16: when the first output has k backslashes, the second pass returns   *)
(* a text with exactly 2k backslashes.                                     *)
(***************************************************************************)
C16_SecondPassDoubles ==
  (Returned /\ pass = 2) =>
    CountBackslashes(OutText) = 2 * CountBackslashes(InText)

(* The three steps applied in reversed order: 3, then 2, then 1. *)
ReversedOrder(s) == Step1(Step2(Step3(s)))

(***************************************************************************)
(* C17: on every input that contains a control character, the steps in     *)
(* reversed order give an output different from the order 1, 2, 3.         *)
(***************************************************************************)
C17_ReversedOrderDiffers ==
  (Returned /\ TextCall /\ Chars(InText) \cap ControlCodeUnits # {}) =>
    OutText # ReversedOrder(InText)

BothReturned == pc = "returned" /\ sharedPc = "returned"

(***************************************************************************)
(* C18: the client's three-step sanitizer and the edge functions' two-step *)
(* sanitizer return the same output for every text input.                  *)
(***************************************************************************)
C18_SameOutput ==
  (BothReturned /\ TextCall) => sharedResult = result

(* Every backslash of s is alone and does not start a malformed \u. *)
SinglesOnly(s) ==
  \A i \in 1..Len(s) :
    s[i] = 92 =>
      /\ (i = 1 \/ s[i - 1] # 92)
      /\ (i = Len(s) \/ s[i + 1] # 92)
      /\ ~MalformedAt(s, i)

ObjReturned == objPc = "returned"

IsRef(v) == v.type = "object" /\ v.val # "null"

KeySet(c) == {c.entries[j].key : j \in 1..Len(c.entries)}

RECURSIVE Reachable(_, _)
Reachable(h, v) ==
  IF ~IsRef(v) THEN {}
  ELSE {v.val} \cup
       UNION {Reachable(h, h[v.val].entries[j].value) :
                j \in 1..Len(h[v.val].entries)}

(* vout in heap ha has the shape of vin in heap hb, string leaves replaced *)
(* by their sanitized text, other leaves equal.                            *)
RECURSIVE SameShapeSanitized(_, _, _, _)
SameShapeSanitized(hb, vin, ha, vout) ==
  IF vin.type = "string" THEN vout = Str(SanitizeText(vin.val))
  ELSE IF ~IsRef(vin) THEN vout = vin
  ELSE /\ IsRef(vout)
       /\ LET ci == hb[vin.val]
              co == ha[vout.val]
          IN /\ ci.isArray = co.isArray
             /\ IF ci.isArray
                THEN /\ Len(co.entries) = Len(ci.entries)
                     /\ \A j \in 1..Len(ci.entries) :
                          SameShapeSanitized(hb, ci.entries[j].value,
                                             ha, co.entries[j].value)
                ELSE /\ KeySet(co) = KeySet(ci)
                     /\ Len(co.entries) = Len(ci.entries)
                     /\ \A j \in 1..Len(ci.entries) :
                          \A k \in 1..Len(co.entries) :
                            ci.entries[j].key = co.entries[k].key =>
                              SameShapeSanitized(hb, ci.entries[j].value,
                                                 ha, co.entries[k].value)

(***************************************************************************)
(* C12: sanitizeObjectForJson returns a value of the same shape as its     *)
(* argument: an array of the same length, an object with the same key set, *)
(* every string leaf replaced by sanitizeForJson of it, every other leaf   *)
(* unchanged; a bare string gives sanitizeForJson of it.                   *)
(***************************************************************************)
C12_SameShapeLeavesSanitized ==
  ObjReturned => SameShapeSanitized(heapBefore, obj, heap, objResult)

(***************************************************************************)
(* C13: keys are never sanitized: in every object of the result each key   *)
(* is a key of the corresponding object of the argument, and a key of the  *)
(* argument that holds a backslash or a control character is a key of the  *)
(* result as it stands.                                                     *)
(***************************************************************************)
RECURSIVE KeysKept(_, _, _, _)
KeysKept(hb, vin, ha, vout) ==
  (IsRef(vin) /\ IsRef(vout)) =>
    LET ci == hb[vin.val]
        co == ha[vout.val]
    IN IF ci.isArray
       THEN \A j \in 1..Len(ci.entries) :
              j <= Len(co.entries) =>
                KeysKept(hb, ci.entries[j].value, ha, co.entries[j].value)
       ELSE /\ \A k \in KeySet(co) : k \in KeySet(ci)
            /\ \A k \in KeySet(ci) : HasBackslashOrControl(k) => k \in KeySet(co)
            /\ \A j \in 1..Len(ci.entries) :
                 \A k \in 1..Len(co.entries) :
                   ci.entries[j].key = co.entries[k].key =>
                     KeysKept(hb, ci.entries[j].value, ha, co.entries[k].value)

C13_KeysNotSanitized ==
  ObjReturned => KeysKept(heapBefore, obj, heap, objResult)

C13_Witness ==
  /\ ObjReturned
  /\ IsRef(obj)
  /\ IsRef(objResult)
  /\ ~heapBefore[obj.val].isArray
  /\ KeySet(heapBefore[obj.val]) = {<<92, 117>>, <<10>>}
  /\ KeySet(heap[objResult.val]) = {<<92, 117>>, <<10>>}
  /\ \E j \in 1..Len(heap[objResult.val].entries) :
       heap[objResult.val].entries[j] =
         [key |-> <<92, 117>>, value |-> Str(<<92, 92, 92, 117, 90>>)]

(***************************************************************************)
(* C14: the call leaves its argument as it was: every array and object     *)
(* that existed before the call holds the same entries afterwards, and     *)
(* every array or object of the result was built by the call.              *)
(***************************************************************************)
C14_InputUntouchedResultFresh ==
  ObjReturned =>
    /\ \A a \in DOMAIN heapBefore :
         a \in DOMAIN heap /\ heap[a] = heapBefore[a]
    /\ Reachable(heap, objResult) \cap DOMAIN heapBefore = {}

C14_Witness ==
  /\ ObjReturned
  /\ IsRef(obj)
  /\ heapBefore[obj.val].isArray
  /\ Cardinality(Reachable(heapBefore, obj)) = 3
  /\ Cardinality(Reachable(heap, objResult)) = 3
  /\ \E j \in 1..Len(heapBefore[obj.val].entries) :
       LET v == heapBefore[obj.val].entries[j].value
       IN /\ IsRef(v)
          /\ Len(heapBefore[v.val].entries) = 1
          /\ heapBefore[v.val].entries[1].value = Str(<<92, 117, 90>>)
          /\ heap[v.val].entries[1].value = Str(<<92, 117, 90>>)

(***************************************************************************)
(* C20: when a prompt has been built, each value embedded in it (resume    *)
(* text, job title, job description, parsed resume) has gone through       *)
(* exactly one sanitizer call on its way from the page.                    *)
(***************************************************************************)
PromptBuilt == flowPc \in {"parsePrompt", "fitPrompt", "improvePrompt"}

C20_EachValueSanitizedOnce ==
  PromptBuilt => \A f \in DOMAIN prompt : passes[f] = 1

(***************************************************************************)
(* C23: after steps 1 and 2 every backslash of the input has become two,   *)
(* and a backslash that step 1 put before a malformed \u stands as step 1  *)
(* wrote it: a backslash of a malformed \u gives three, any other two,     *)
(* every other code unit is kept.                                          *)
(***************************************************************************)
RECURSIVE OriginalsDoubled(_, _)
OriginalsDoubled(s, i) ==
  IF i > Len(s) THEN <<>>
  ELSE IF s[i] # 92 THEN <<s[i]>> \o OriginalsDoubled(s, i + 1)
  ELSE IF i + 1 <= Len(s) /\ s[i + 1] = 117 /\ ~FourHexAt(s, i + 2)
    THEN <<92, 92, 92>> \o OriginalsDoubled(s, i + 1)
  ELSE <<92, 92>> \o OriginalsDoubled(s, i + 1)

AfterStep2 == pc = "step3"

C23_OriginalsDoubledInsertedKept ==
  (AfterStep2 /\ TextCall) => sanitized = OriginalsDoubled(InText, 1)

(***************************************************************************)
(* C24: the text returned by the client sanitizer and the text returned by *)
(* the shared sanitizer hold no code unit in 0x00-0x1F or 0x7F-0x9F, and   *)
(* the control-character step applied to either returns it unchanged.      *)
(***************************************************************************)
NoControl(s) == \A i \in 1..Len(s) : s[i] \notin ControlCodeUnits

C24_OutputHasNoControl ==
  (BothReturned /\ TextCall) =>
    /\ NoControl(OutText)
    /\ Step3(OutText) = OutText
    /\ NoControl(sharedResult.val)
    /\ SharedReplaceControlChars(sharedResult.val, 1) = sharedResult.val

C24_Witness ==
  /\ BothReturned
  /\ TextCall
  /\ InText = <<0, 159, 127>>
  /\ OutText = <<92, 117, 48, 48, 48, 48, 92, 117, 48, 48, 57, 102,
                 92, 117, 48, 48, 55, 102>>
  /\ sharedResult.val = OutText

(***************************************************************************)
(* C25: for a text input, step 2 run before step 1 and then step 3 gives   *)
(* the text the sanitizer returns with its own order 1, 2, 3.              *)
(***************************************************************************)
SwappedOrder(s) == Step3(Step1(Step2(s)))

C25_Steps12Commute ==
  (Returned /\ TextCall) => SwappedOrder(InText) = OutText

C25_Witness ==
  /\ Returned
  /\ TextCall
  /\ InText = <<92, 65, 92, 117>>
  /\ Step1(InText) = <<92, 65, 92, 92, 117>>
  /\ Step2(InText) = <<92, 92, 65, 92, 92, 117>>
  /\ Step1(Step2(InText)) = <<92, 92, 65, 92, 92, 92, 117>>
  /\ OutText = <<92, 92, 65, 92, 92, 92, 117>>

(***************************************************************************)
(* C26: the sanitizer is injective on texts: no other text input has the   *)
(* output of this one.  Stated against the texts that spell out a control  *)
(* character's escape after a backslash (backslash, backslash, u000a).     *)
(***************************************************************************)
SpelledRivals == {<<92>> \o EscapeOf(c) : c \in {9, 10}}

C26_Injective ==
  (Returned /\ TextCall) =>
    \A t \in SpelledRivals : t # InText => SanitizeText(t) # OutText

(***************************************************************************)
(* Reading a text as the body of a JSON string literal: two backslashes    *)
(* read as one, backslash u and four hex digits as that code unit, any     *)
(* other code unit as itself; a backslash before anything else fails.      *)
(***************************************************************************)
HexValue(c) ==
  IF c >= 48 /\ c <= 57 THEN c - 48
  ELSE IF c >= 97 /\ c <= 102 THEN c - 87
  ELSE c - 55

Undecodable == <<0 - 1>>

RECURSIVE JsonDecode(_, _)
JsonDecode(s, i) ==
  IF i > Len(s) THEN <<>>
  ELSE IF s[i] # 92
    THEN LET rest == JsonDecode(s, i + 1)
         IN IF rest = Undecodable THEN Undecodable ELSE <<s[i]>> \o rest
  ELSE IF i + 1 <= Len(s) /\ s[i + 1] = 92
    THEN LET rest == JsonDecode(s, i + 2)
         IN IF rest = Undecodable THEN Undecodable ELSE <<92>> \o rest
  ELSE IF i + 1 <= Len(s) /\ s[i + 1] = 117 /\ FourHexAt(s, i + 2)
    THEN LET rest == JsonDecode(s, i + 6)
             code == 4096 * HexValue(s[i + 2]) + 256 * HexValue(s[i + 3])
                       + 16 * HexValue(s[i + 4]) + HexValue(s[i + 5])
         IN IF rest = Undecodable THEN Undecodable ELSE <<code>> \o rest
  ELSE Undecodable

SharedReturned == sharedPc = "returned"

(***************************************************************************)
(* C27: for a text input without a double quote, the text the shared       *)
(* sanitizer returns, read as the body of a JSON string literal, is the    *)
(* input; and each backslash of the input stands as two in the output, the *)
(* only other backslashes being those of the control-character escapes.    *)
(***************************************************************************)
C27_SharedDecodesToInput ==
  (SharedReturned /\ TextCall /\ 34 \notin Chars(InText)) =>
    /\ JsonDecode(sharedResult.val, 1) = InText
    /\ CountBackslashes(sharedResult.val) =
         2 * CountBackslashes(InText)
           + Cardinality({i \in 1..Len(InText) : InText[i] \in ControlCodeUnits})
    /\ sharedResult.val = UniformlyEscaped(InText)

C27_Witness ==
  /\ SharedReturned
  /\ TextCall
  /\ InText = <<92, 92, 117, 10>>
  /\ sharedResult.val = <<92, 92, 92, 92, 117, 92, 117, 48, 48, 48, 97>>
  /\ JsonDecode(sharedResult.val, 1) = <<92, 92, 117, 10>>

(***************************************************************************)
(* C21: in every prompt an edge function has built, each value is the      *)
(* edge function's sanitizer applied to the field it read from the request *)
(* body: sanitizeForJson of a text field, sanitizeObjectForJson of the     *)
(* parsed resume.                                                           *)
(***************************************************************************)
EdgeSanitized(f, v) ==
  IF f = "parsedResume"
  THEN LET r == Load(<<>>, v)
           z == SharedSanitizeObjectForJson(r.heap, r.value)
       IN Dump(z.heap, z.value)
  ELSE UniformlyEscaped(v)

C21_EdgeSanitizesEveryField ==
  PromptBuilt => \A f \in DOMAIN prompt : prompt[f] = EdgeSanitized(f, body[f])

(***************************************************************************)
(* C22: the text columns of an inserted row hold the sanitizer's output:   *)
(* extracted_text of a resumes row is the sanitized extracted text,        *)
(* job_title and job_description of an analyses row the sanitized trimmed  *)
(* title and description.                                                  *)
(***************************************************************************)
C22_StoredTextSanitized ==
  /\ flowPc = "resumeStored" =>
       stored.extracted_text = SanitizeText(userText.resumeText)
  /\ flowPc = "analysisStored" =>
       /\ stored.job_title = SanitizeText(Trim(userText.jobTitle))
       /\ stored.job_description = SanitizeText(Trim(userText.jobDescription))

(***************************************************************************)
(* The sanitizers and the prompt flow are not running.                     *)
(***************************************************************************)
SanitizersIdle ==
  /\ input = Str(<<>>)
  /\ sanitized = <<>>
  /\ result = Pending
  /\ pc = "idle"
  /\ firstInput = input
  /\ pass = 1
  /\ sharedSanitized = <<>>
  /\ sharedResult = Pending
  /\ sharedPc = "idle"
  /\ heap = <<>>
  /\ heapBefore = <<>>
  /\ obj = Pending
  /\ objResult = Pending
  /\ objPc = "idle"
  /\ flowPc = "idle"
  /\ userText = <<>>
  /\ body = <<>>
  /\ prompt = <<>>
  /\ passes = <<>>
  /\ stored = <<>>

(***************************************************************************)
(* Upload.handleUpload against the resumes bucket and the resumes table.   *)
(* Every await of the handler either yields its value or fails; a failure  *)
(* is an error result the handler throws, or a rejected promise.           *)
(***************************************************************************)
(* The number of files the user selects in one visit of the page. *)
MaxUploads == 2

(* file.name of the files the user can select. *)
FileNames == {"cv.pdf", "resume.docx"}

(* user.id of the signed-in user. *)
UserId == "user-1"

(* `${user.id}/${Date.now()}_${file.name}` *)
FilePathOf(uid, now, name) == <<uid, now, name>>

(* What a run of handleUpload leaves alone. *)
notUpload ==
  <<scalarVars, passVars, sharedVars, objVars, flowVars, edgeVars, dashVars>>

InitUpload ==
  /\ upPc = "ready"
  /\ file \in FileNames \cup {NoFile}
  /\ filePath = <<>>
  /\ bucket = {}
  /\ resumeRows = {}
  /\ clock = 1
  /\ uploads = 1
  /\ SanitizersIdle
  /\ EdgeIdle
  /\ DashIdle

(* if (!file) return; *)
ReturnNoFile ==
  /\ upPc = "ready"
  /\ file = NoFile
  /\ upPc' = "finished"
  /\ UNCHANGED <<file, filePath, bucket, resumeRows, clock, uploads,
                 notUpload>>

(* const { data: { user } } = await supabase.auth.getUser();               *)
(* if (!user) throw new Error("User not authenticated");                   *)
GetUser ==
  /\ upPc = "ready"
  /\ file # NoFile
  /\ \E user \in {UserId, "null"} :
       upPc' = IF user = "null" THEN "catch" ELSE "upload"
  /\ UNCHANGED <<file, filePath, bucket, resumeRows, clock, uploads,
                 notUpload>>

(* const filePath = ...; supabase.storage.from("resumes").upload(filePath, *)
(* file); if (uploadError) throw uploadError;  An upload to a path that    *)
(* holds an object already is an error (no upsert option is passed).       *)
StorageUpload ==
  /\ upPc = "upload"
  /\ filePath' = FilePathOf(UserId, clock, file)
  /\ \E uploadError \in BOOLEAN :
       IF uploadError \/ filePath' \in bucket
       THEN /\ upPc' = "catch"
            /\ bucket' = bucket
       ELSE /\ upPc' = "extract"
            /\ bucket' = bucket \cup {filePath'}
  /\ UNCHANGED <<file, resumeRows, clock, uploads,
                 notUpload>>

(* const extractedText = await extractTextFromFile(file); pdf.js and the   *)
(* FileReader (reader.onerror = reject) can reject.                        *)
ExtractTextFromFile ==
  /\ upPc = "extract"
  /\ \E rejected \in BOOLEAN :
       upPc' = IF rejected THEN "catch" ELSE "parse"
  /\ UNCHANGED <<file, filePath, bucket, resumeRows, clock, uploads,
                 notUpload>>

(* supabase.functions.invoke("parse-resume", ...); if (parseError) throw.  *)
InvokeParseResume ==
  /\ upPc = "parse"
  /\ \E parseError \in BOOLEAN :
       upPc' = IF parseError THEN "catch" ELSE "insert"
  /\ UNCHANGED <<file, filePath, bucket, resumeRows, clock, uploads,
                 notUpload>>

(* supabase.from("resumes").insert({..., file_path: filePath, ...});       *)
(* if (dbError) throw dbError;                                             *)
InsertResumeRow ==
  /\ upPc = "insert"
  /\ \E dbError \in BOOLEAN :
       IF dbError
       THEN /\ upPc' = "catch"
            /\ resumeRows' = resumeRows
       ELSE /\ upPc' = "finally"
            /\ resumeRows' = resumeRows \cup
                 {[user_id |-> UserId, file_name |-> file,
                   file_path |-> filePath]}
  /\ UNCHANGED <<file, filePath, bucket, clock, uploads,
                 notUpload>>

(* catch (error) { console.error(...); toast.error(...); } *)
CatchUploadError ==
  /\ upPc = "catch"
  /\ upPc' = "finally"
  /\ UNCHANGED <<file, filePath, bucket, resumeRows, clock, uploads,
                 notUpload>>

(* finally { setUploading(false); setParsing(false); setProgress(0); } *)
FinallyUpload ==
  /\ upPc = "finally"
  /\ upPc' = "finished"
  /\ UNCHANGED <<file, filePath, bucket, resumeRows, clock, uploads,
                 notUpload>>

(* handleFileChange: setFile(selectedFile), some time after the last run;  *)
(* the next click on the button runs handleUpload again.                   *)
HandleFileChange ==
  /\ upPc = "finished"
  /\ uploads < MaxUploads
  /\ file' \in FileNames
  /\ clock' \in {clock, clock + 1}
  /\ uploads' = uploads + 1
  /\ upPc' = "ready"
  /\ UNCHANGED <<filePath, bucket, resumeRows,
                 notUpload>>

NextUpload ==
  \/ ReturnNoFile
  \/ GetUser
  \/ StorageUpload
  \/ ExtractTextFromFile
  \/ InvokeParseResume
  \/ InsertResumeRow
  \/ CatchUploadError
  \/ FinallyUpload
  \/ HandleFileChange

SpecUpload == InitUpload /\ [][NextUpload]_vars

(***************************************************************************)
(* C28: when handleUpload has finished, every object of the resumes bucket *)
(* is the file_path of a row of the resumes table.                         *)
(***************************************************************************)
Referenced(p) == \E r \in resumeRows : r.file_path = p

C28_UploadedFilesReferenced ==
  upPc = "finished" => \A p \in bucket : Referenced(p)

(***************************************************************************)
(* The request handler of an edge function: serve(async (req) => ...) of   *)
(* parse-resume, analyze-job-fit and improve-resume.  The three handlers   *)
(* differ in the prompt they build, not in how they answer.  Every await   *)
(* either yields its value or throws.                                      *)
(***************************************************************************)
EdgeFunctions == {"parse-resume", "analyze-job-fit", "improve-resume"}

(* new Response(body, {headers}): the default status. *)
StatusOk == 200

(* response.status === 429, { status: 429 } *)
StatusRateLimited == 429

(* response.status === 402, { status: 402 } *)
StatusPaymentRequired == 402

(* { status: 500 } *)
StatusError == 500

(* The statuses the AI gateway answers with. *)
GatewayStatuses == {StatusOk, StatusRateLimited, StatusPaymentRequired,
                    StatusError}

(* What data.choices[0].message.content is: JSON text, other text, or      *)
(* absent (data has no choices, or the body is not JSON).                  *)
Contents == {"json", "text", "absent"}

(* response.ok of the fetch Response: the status is in the range 200-299. *)
ResponseOk(status) == status >= 200 /\ status <= 299

(* What a handler run leaves alone. *)
notEdge ==
  <<scalarVars, passVars, sharedVars, objVars, flowVars, uploadVars, dashVars>>

InitEdge ==
  /\ edgePc = "entry"
  /\ edgeFn \in EdgeFunctions
  /\ request \in [method : {"OPTIONS", "POST"}, json : BOOLEAN]
  /\ apiKey \in BOOLEAN
  /\ gateway \in [reached : BOOLEAN, status : GatewayStatuses,
                  text : BOOLEAN, content : Contents]
  /\ response = NoResponse
  /\ SanitizersIdle
  /\ UploadIdle
  /\ DashIdle

(* if (req.method === 'OPTIONS') return new Response(null, {headers}); *)
AnswerPreflight ==
  /\ edgePc = "entry"
  /\ request.method = "OPTIONS"
  /\ response' = StatusOk
  /\ edgePc' = "answered"
  /\ UNCHANGED <<edgeFn, request, apiKey, gateway, notEdge>>

(* const {...} = await req.json(); throws when the body is not JSON. *)
ReadRequestJson ==
  /\ edgePc = "entry"
  /\ request.method # "OPTIONS"
  /\ edgePc' = IF request.json THEN "key" ELSE "catch"
  /\ UNCHANGED <<edgeFn, request, apiKey, gateway, response, notEdge>>

(* if (!LOVABLE_API_KEY) throw new Error('LOVABLE_API_KEY is not           *)
(* configured');                                                           *)
GetApiKey ==
  /\ edgePc = "key"
  /\ edgePc' = IF apiKey THEN "fetch" ELSE "catch"
  /\ UNCHANGED <<edgeFn, request, apiKey, gateway, response, notEdge>>

(* const response = await fetch(gateway, ...); rejects when the gateway    *)
(* cannot be reached.                                                      *)
FetchGateway ==
  /\ edgePc = "fetch"
  /\ edgePc' = IF gateway.reached THEN "status" ELSE "catch"
  /\ UNCHANGED <<edgeFn, request, apiKey, gateway, response, notEdge>>

(* if (!response.ok) { const errorText = await response.text();            *)
(*   if (response.status === 429) return new Response(..., {status: 429}); *)
(*   if (response.status === 402) return new Response(..., {status: 402}); *)
(*   throw new Error(`AI gateway error: ...`); }                           *)
CheckGatewayStatus ==
  /\ edgePc = "status"
  /\ IF ResponseOk(gateway.status)
     THEN /\ edgePc' = "content"
          /\ response' = response
     ELSE IF ~gateway.text
     THEN /\ edgePc' = "catch"
          /\ response' = response
     ELSE IF gateway.status = StatusRateLimited
     THEN /\ edgePc' = "answered"
          /\ response' = StatusRateLimited
     ELSE IF gateway.status = StatusPaymentRequired
     THEN /\ edgePc' = "answered"
          /\ response' = StatusPaymentRequired
     ELSE /\ edgePc' = "catch"
          /\ response' = response
  /\ UNCHANGED <<edgeFn, request, apiKey, gateway, notEdge>>

(* const data = await response.json();                                     *)
(* JSON.parse(data.choices[0].message.content);                            *)
(* return new Response(JSON.stringify({...}), {headers});                  *)
ParseContent ==
  /\ edgePc = "content"
  /\ IF gateway.content = "json"
     THEN /\ edgePc' = "answered"
          /\ response' = StatusOk
     ELSE /\ edgePc' = "catch"
          /\ response' = response
  /\ UNCHANGED <<edgeFn, request, apiKey, gateway, notEdge>>

(* catch (error) { return new Response(JSON.stringify({error: ...}),       *)
(* {status: 500, ...}); }                                                  *)
CatchEdgeError ==
  /\ edgePc = "catch"
  /\ response' = StatusError
  /\ edgePc' = "answered"
  /\ UNCHANGED <<edgeFn, request, apiKey, gateway, notEdge>>

NextEdge ==
  \/ AnswerPreflight
  \/ ReadRequestJson
  \/ GetApiKey
  \/ FetchGateway
  \/ CheckGatewayStatus
  \/ ParseContent
  \/ CatchEdgeError

SpecEdge == InitEdge /\ [][NextEdge]_vars

(***************************************************************************)
(* C29: a handler that has answered a request other than OPTIONS answered  *)
(* 429 exactly when the gateway answered 429, 402 exactly when the gateway *)
(* answered 402, success only when the gateway answered OK and the content *)
(* parsed, and 500 in every other case.                                    *)
(***************************************************************************)
Answered == edgePc = "answered" /\ request.method # "OPTIONS"

(* The gateway received the request and sent this status. *)
GatewayAnswered(status) ==
  request.json /\ apiKey /\ gateway.reached /\ gateway.status = status

C29_StatusFollowsGateway ==
  Answered =>
    /\ response = StatusRateLimited <=> GatewayAnswered(StatusRateLimited)
    /\ response = StatusPaymentRequired <=>
         GatewayAnswered(StatusPaymentRequired)
    /\ response = StatusOk =>
         /\ \E s \in GatewayStatuses : ResponseOk(s) /\ GatewayAnswered(s)
         /\ gateway.content = "json"
    /\ response \in {StatusRateLimited, StatusPaymentRequired, StatusOk,
                     StatusError}

(***************************************************************************)
(* Dashboard.fetchDashboardData against the resumes and analyses tables.   *)
(* A table is the sequence of its rows in the order of created_at.         *)
(***************************************************************************)
(* The number of rows one user has in a table. *)
MaxRows == 6

(* .limit(5) *)
RecentLimit == 5

(* user_id of another user's rows. *)
OtherUserId == "user-2"

(* match_score INTEGER CHECK (match_score >= 0 AND match_score <= 100) *)
Scores == {45, 90}

ResumeRowOf(uid) == [user_id |-> uid]

AnalysisRowOf(uid, score) == [user_id |-> uid, match_score |-> score]

(* The tables with n rows of the user's. *)
OwnRows(rowSet, n) == [1..n -> rowSet]

(* The same table with one row of another user's somewhere in it. *)
WithForeignRow(t, row) ==
  {SubSeq(t, 1, k) \o <<row>> \o SubSeq(t, k + 1, Len(t)) : k \in 0..Len(t)}

(* .eq("user_id", user.id) *)
EqUserId(t, uid) == SelectSeq(t, LAMBDA r : r.user_id = uid)

(* .order("created_at", { ascending: false }) *)
OrderDescending(t) == [i \in 1..Len(t) |-> t[Len(t) + 1 - i]]

(* .limit(n) *)
Limit(t, n) == SubSeq(t, 1, IF Len(t) < n THEN Len(t) ELSE n)

(* supabase.from(table).select("*").eq("user_id", user.id)                 *)
(*   .order("created_at", { ascending: false }).limit(5)                   *)
SelectRecent(t, uid) == Limit(OrderDescending(EqUserId(t, uid)), RecentLimit)

(* a.match_score || 0 *)
ScoreOrZero(a) == IF a.match_score = 0 THEN 0 ELSE a.match_score

(* rows.reduce((sum, a) => sum + (a.match_score || 0), 0) *)
RECURSIVE SumScores(_)
SumScores(rows) ==
  IF rows = <<>> THEN 0
  ELSE ScoreOrZero(Head(rows)) + SumScores(Tail(rows))

(* Math.round(sum / n): the nearest integer, a half rounded up. *)
MathRound(sum, n) == (2 * sum + n) \div (2 * n)

(* data.length > 0 ? data.reduce(...) / data.length : 0, then Math.round *)
AvgScore(rows) ==
  IF Len(rows) > 0 THEN MathRound(SumScores(rows), Len(rows)) ELSE 0

(* What a run of fetchDashboardData leaves alone. *)
notDash ==
  <<scalarVars, passVars, sharedVars, objVars, flowVars, uploadVars, edgeVars>>

InitDash ==
  /\ dashPc = "entry"
  /\ \E n \in 0..MaxRows :
       \E t \in OwnRows({ResumeRowOf(UserId)}, n) :
         resumesTable \in {t} \cup WithForeignRow(t, ResumeRowOf(OtherUserId))
  /\ \E n \in 0..MaxRows :
       \E t \in OwnRows({AnalysisRowOf(UserId, s) : s \in Scores}, n) :
         analysesTable \in
           {t} \cup WithForeignRow(t, AnalysisRowOf(OtherUserId, 45))
  /\ resumesData = <<>>
  /\ analysesData = <<>>
  /\ stats = InitialStats
  /\ outcome = "none"
  /\ SanitizersIdle
  /\ UploadIdle
  /\ EdgeIdle

(* const { data: { user } } = await supabase.auth.getUser();               *)
(* if (!user) return;                                                      *)
GetDashboardUser ==
  /\ dashPc = "entry"
  /\ \E user \in {UserId, "null"} :
       IF user = "null"
       THEN /\ dashPc' = "finally"
            /\ outcome' = "returned"
       ELSE /\ dashPc' = "resumes"
            /\ outcome' = outcome
  /\ UNCHANGED <<resumesTable, analysesTable, resumesData, analysesData,
                 stats, notDash>>

(* const { data: resumesData, error: resumesError } = await supabase       *)
(*   .from("resumes")...; if (resumesError) throw resumesError;            *)
FetchResumes ==
  /\ dashPc = "resumes"
  /\ \E resumesError \in BOOLEAN :
       IF resumesError
       THEN /\ dashPc' = "catch"
            /\ resumesData' = resumesData
       ELSE /\ dashPc' = "analyses"
            /\ resumesData' = SelectRecent(resumesTable, UserId)
  /\ UNCHANGED <<resumesTable, analysesTable, analysesData, stats, outcome,
                 notDash>>

(* const { data: analysesData, error: analysesError } = await supabase     *)
(*   .from("analyses")...; if (analysesError) throw analysesError;         *)
FetchAnalyses ==
  /\ dashPc = "analyses"
  /\ \E analysesError \in BOOLEAN :
       IF analysesError
       THEN /\ dashPc' = "catch"
            /\ analysesData' = analysesData
       ELSE /\ dashPc' = "stats"
            /\ analysesData' = SelectRecent(analysesTable, UserId)
  /\ UNCHANGED <<resumesTable, analysesTable, resumesData, stats, outcome,
                 notDash>>

(* setStats({ totalResumes: resumesData?.length || 0,                      *)
(*            totalAnalyses: analysesData?.length || 0,                    *)
(*            avgMatchScore: Math.round(avgScore) });                      *)
SetStats ==
  /\ dashPc = "stats"
  /\ stats' = [totalResumes |-> Len(resumesData),
               totalAnalyses |-> Len(analysesData),
               avgMatchScore |-> AvgScore(analysesData)]
  /\ outcome' = "succeeded"
  /\ dashPc' = "finally"
  /\ UNCHANGED <<resumesTable, analysesTable, resumesData, analysesData,
                 notDash>>

(* catch (error) { console.error(...); toast.error("Failed to load         *)
(* dashboard data"); }                                                     *)
CatchDashboardError ==
  /\ dashPc = "catch"
  /\ outcome' = "failed"
  /\ dashPc' = "finally"
  /\ UNCHANGED <<resumesTable, analysesTable, resumesData, analysesData,
                 stats, notDash>>

(* finally { setLoading(false); } *)
FinallyDashboard ==
  /\ dashPc = "finally"
  /\ dashPc' = "loaded"
  /\ UNCHANGED <<resumesTable, analysesTable, resumesData, analysesData,
                 stats, outcome, notDash>>

NextDash ==
  \/ GetDashboardUser
  \/ FetchResumes
  \/ FetchAnalyses
  \/ SetStats
  \/ CatchDashboardError
  \/ FinallyDashboard

SpecDash == InitDash /\ [][NextDash]_vars

(***************************************************************************)
(* C30: after fetchDashboardData has succeeded, Total Resumes and Total    *)
(* Analyses are the numbers of the user's rows in the two tables, and Avg  *)
(* Match Score is the rounded mean of match_score over all the user's      *)
(* analyses.                                                               *)
(***************************************************************************)
UserResumes == EqUserId(resumesTable, UserId)

UserAnalyses == EqUserId(analysesTable, UserId)

C30_StatsMatchRows ==
  outcome = "succeeded" =>
    /\ stats.totalResumes = Len(UserResumes)
    /\ stats.totalAnalyses = Len(UserAnalyses)
    /\ Len(UserAnalyses) > 0 =>
         stats.avgMatchScore =
           MathRound(SumScores(UserAnalyses), Len(UserAnalyses))


====
